---- MODULE Spec2Model ----
(***************************************************************************)
(* Model of helper_scripts/run_relational_experiment.py: the experiment    *)
(* sweep controller.  The Python process is one thread whose call stack is *)
(* the variable stack; SIGALRM and SIGINT handlers are Python-level signal *)
(* handlers, which the interpreter runs on top of whatever frame is        *)
(* executing, so a handler can start while another one is suspended.       *)
(* Everything started with subprocess.Popen runs on its own: the shell     *)
(* commands "kill -9 <pid>" and "pkill -9 <name>" take effect when the     *)
(* operating system gets to them, not when Popen returns.                  *)
(***************************************************************************)
EXTENDS Integers, Sequences, FiniteSets, Bags, TLC

VARIABLES
    experiment_list,        \* ExperimentRunner.experiment_list (run queue)
    processes,              \* ExperimentRunner.processes (process registry)
    number_tests_executed,  \* ExperimentRunner.number_tests_executed
    log_system_stats,       \* ExperimentRunner.log_system_stats
    stack,                  \* Python call stack, innermost frame last
    status,                 \* the controller process: running, exited, crashed,
                            \*   usage (left through parser.error)
    error,                  \* the exception or parser.error message it ended with
    parsed_arguments,       \* main(): what argparse returned
    itimer,                 \* interval of ITIMER_REAL in seconds, 0 while not armed
    alive,                  \* operating system: processes that are alive
    forked,                 \* experiments whose wrapper has started perf_test
    pending,                \* bag of spawned shell commands not yet executed
    generated,              \* history: what generate_experiment_permutations returned
    launched,               \* history: ids of Experiments launched, in order
    calls                   \* history: kill()/run() calls and SIGINT deliveries

vars == <<experiment_list, processes, number_tests_executed, log_system_stats,
          stack, status, error, parsed_arguments, itimer, alive, forked, pending,
          generated, launched, calls>>

\* tests_to_run and the locals of main() it was made from
runner == <<experiment_list, processes, number_tests_executed, log_system_stats,
            generated, parsed_arguments, itimer>>

----------------------------------------------------------------------------
(* Bounds of the model *)

\* handler frames (timer_handler, signal_handler) that may be on the stack at once
MaxDepth == 2
\* length of the --topics list
MaxTopics == 1
\* direct calls a caller of ExperimentRunner makes (RunnerSpec)
MaxCalls == 4
\* length of a list given on the command line of main() or handed to
\* generate_experiment_permutations (MainSpec, GeneratorSpec)
MaxList == 2

----------------------------------------------------------------------------
(* Module constants *)

RELIABLE_FLAG == "reliable"
DURABILITY_FLAG == "transient"
SECURITY_FLAG == "with_security"

\* the part of VALID_TOPICS the model draws --topics from
VALID_TOPICS == {"Struct256", "Array1k"}

----------------------------------------------------------------------------
(* Experiment and generate_experiment_permutations *)

\* An Experiment object; id stands for the object's identity.
Experiment(id, topic, rate, num_publishers, num_subscribers, reliability, durability, security) ==
    [id |-> id, topic |-> topic, rate |-> rate, num_publishers |-> num_publishers,
     num_subscribers |-> num_subscribers, reliability |-> reliability,
     durability |-> durability, security |-> security]

NoExperiment == Experiment(0, "", 0, 0, 0, "", "", "")

RECURSIVE Flatten(_)
Flatten(ss) == IF ss = <<>> THEN <<>> ELSE Head(ss) \o Flatten(Tail(ss))

\* a list without the repetitions of its elements
RECURSIVE unique(_)
unique(list) ==
    IF list = <<>> THEN <<>>
    ELSE LET init == unique(SubSeq(list, 1, Len(list) - 1))
             x == list[Len(list)]
         IN IF \E i \in 1..Len(init) : init[i] = x THEN init ELSE Append(init, x)

\* the product with the first pool varying fastest
RECURSIVE product_first_fastest(_)
product_first_fastest(pools) ==
    IF pools = <<>> THEN << <<>> >>
    ELSE LET rest == product_first_fastest(Tail(pools))
             pool == Head(pools)
         IN Flatten([j \in 1..Len(rest) |->
                        [i \in 1..Len(pool) |-> <<pool[i]>> \o rest[j]]])

\* the product of the pools without their repetitions
RECURSIVE product_of_sets(_)
product_of_sets(pools) ==
    IF pools = <<>> THEN << <<>> >>
    ELSE LET rest == product_of_sets(Tail(pools))
             pool == unique(Head(pools))
         IN Flatten([i \in 1..Len(pool) |->
                        [j \in 1..Len(rest) |-> <<pool[i]>> \o rest[j]]])

\* itertools.product(*pools): the last pool varies fastest
RECURSIVE product(_)
product(pools) ==
    IF pools = <<>> THEN << <<>> >>
    ELSE LET rest == product(Tail(pools))
             pool == Head(pools)
         IN Flatten([i \in 1..Len(pool) |->
                        [j \in 1..Len(rest) |-> <<pool[i]>> \o rest[j]]])

generate_experiment_permutations(topics, rates, num_pubs, num_subs, reliability, durability, security) ==
    LET r == IF reliability THEN <<"", RELIABLE_FLAG>> ELSE <<"">>
        d == IF durability THEN <<"", DURABILITY_FLAG>> ELSE <<"">>
        s == IF security THEN <<"", SECURITY_FLAG>> ELSE <<"">>
        permutations == product(<<topics, rates, num_pubs, num_subs, r, d, s>>)
    IN [k \in 1..Len(permutations) |->
            LET p == permutations[k]
            IN Experiment(k, p[1], p[2], p[3], p[4], p[5], p[6], p[7])]

----------------------------------------------------------------------------
(* Strings: a Python str is the sequence of its characters *)

\* the characters of the topic names and flags of the model
chars(s) ==
    CASE s = "" -> <<>>
      [] s = "Struct256" ->
        <<"S", "t", "r", "u", "c", "t", "2", "5", "6">>
      [] s = "Array1k" ->
        <<"A", "r", "r", "a", "y", "1", "k">>
      [] s = "reliable" ->
        <<"r", "e", "l", "i", "a", "b", "l", "e">>
      [] s = "transient" ->
        <<"t", "r", "a", "n", "s", "i", "e", "n", "t">>
      [] s = "with_security" ->
        <<"w", "i", "t", "h", "_", "s", "e", "c", "u", "r", "i", "t", "y">>

COMMAND_PREFIX ==
    <<"r", "o", "s", "2", " ", "r", "u", "n", " ", "p", "e", "r", "f", "o",
      "r", "m", "a", "n", "c", "e", "_", "t", "e", "s", "t", " ", "p", "e",
      "r", "f", "_", "t", "e", "s", "t", " ", "-", "-", "c", "o", "m", "m",
      "u", "n", "i", "c", "a", "t", "i", "o", "n", " ", "R", "O", "S", "2">>

\* the last decimal digit of n alone
units(n) == <<<<"0", "1", "2", "3", "4", "5", "6", "7", "8", "9">>[(n % 10) + 1]>>

\* str(n) of an int that is not negative: its decimal digits
RECURSIVE str(_)
str(n) ==
    LET digit == <<"0", "1", "2", "3", "4", "5", "6", "7", "8", "9">>[(n % 10) + 1]
    IN IF n < 10 THEN <<digit>> ELSE Append(str(n \div 10), digit)

\* sep.join(list)
RECURSIVE join(_, _)
join(sep, list) ==
    IF list = <<>> THEN <<>>
    ELSE IF Len(list) = 1 THEN list[1]
    ELSE list[1] \o sep \o join(sep, Tail(list))

\* s.replace(old, new), old not empty
RECURSIVE replace(_, _, _)
replace(s, old, new) ==
    IF Len(s) < Len(old) THEN s
    ELSE IF SubSeq(s, 1, Len(old)) = old
        THEN new \o replace(SubSeq(s, Len(old) + 1, Len(s)), old, new)
    ELSE <<Head(s)>> \o replace(Tail(s), old, new)

\* an expression statement whose value is bound to the variable
assigned(value, variable) == value

\* an expression statement: the value is dropped, the variable keeps its own
not_assigned(value, variable) == variable

\* get_date() at the time main() ran
get_date ==
    <<"2", "0", "1", "9", "-", "0", "7", "-", "0", "1", "_", "1", "2", "-",
      "0", "0", "-", "0", "0">>

\* main(), line 306: path = 'experiment_' + str(get_date())
parent_path ==
    <<"e", "x", "p", "e", "r", "i", "m", "e", "n", "t", "_">> \o get_date

\* Experiment.__init__, lines 114-120
optional_params(e) ==
    (IF e.reliability # "" THEN <<RELIABLE_FLAG>> ELSE <<>>)
        \o (IF e.durability # "" THEN <<DURABILITY_FLAG>> ELSE <<>>)
        \o (IF e.security # "" THEN <<SECURITY_FLAG>> ELSE <<>>)

\* Experiment.__init__, lines 122-123: replace() returns a new str, which
\* line 123 does not assign
optional_filename(e) ==
    LET params == optional_params(e)
        joined == IF params = <<>> THEN <<>>
                  ELSE join(<<>>, [i \in 1..Len(params) |-> <<"_">> \o chars(params[i])])
    IN not_assigned(replace(joined, <<"w", "i", "t", "h", "_">>, <<>>), joined)

\* Experiment.__init__, line 125: self.path
path(e) == parent_path \o <<"/">> \o chars(e.topic) \o optional_filename(e)

\* Experiment.__init__, lines 127-128: self.file_name
file_name(e) ==
    path(e) \o <<"/", "t", "o", "p", "i", "c">> \o chars(e.topic)
        \o <<"_", "r", "a", "t", "e">> \o str(e.rate)
        \o <<"_", "p">> \o str(e.num_publishers)
        \o <<"_", "s">> \o str(e.num_subscribers)
        \o optional_filename(e) \o <<".", "l", "o", "g">>

\* Experiment.__init__, lines 130-133: self.command
command(e) ==
    LET params == optional_params(e)
    IN COMMAND_PREFIX \o <<" ", "-", "-", "t", "o", "p", "i", "c", " ">> \o chars(e.topic)
        \o <<" ", "-", "-", "r", "a", "t", "e", " ">> \o str(e.rate)
        \o <<" ", "-", "p">> \o str(e.num_publishers)
        \o <<" ", "-", "s">> \o str(e.num_subscribers)
        \o (IF params = <<>> THEN <<>>
            ELSE join(<<" ">>, [i \in 1..Len(params) |-> <<" ", "-", "-">> \o chars(params[i])]))
        \o <<" ", "-", "l", " ">> \o file_name(e)

----------------------------------------------------------------------------
(* Command line arguments the model draws from *)

RECURSIVE SeqsUpTo(_, _)
SeqsUpTo(S, n) ==
    IF n = 0 THEN {<<>>}
    ELSE LET shorter == SeqsUpTo(S, n - 1)
         IN shorter \cup {Append(q, x) : q \in {t \in shorter : Len(t) = n - 1}, x \in S}

\* parser.parse_args(): the Namespace of the nine arguments
Namespace(period, topics, rate, publishers, subscribers, reliability, durability, security, system_stats) ==
    [period |-> period, topics |-> topics, rate |-> rate, publishers |-> publishers,
     subscribers |-> subscribers, reliability |-> reliability, durability |-> durability,
     security |-> security, system_stats |-> system_stats]

TopicsArgs == SeqsUpTo({"Struct256"}, MaxTopics)
RateArgs == {<<7>>}
PublishersArgs == {<<1>>}
SubscribersArgs == {<<5>>}

\* --period as given by default
DefaultPeriod == 60

\* the command lines of the sweeps the controller is run on
SweepArguments ==
    {Namespace(DefaultPeriod, t, r, np, ns, re, FALSE, FALSE, ss) :
        t \in TopicsArgs, r \in RateArgs, np \in PublishersArgs,
        ns \in SubscribersArgs, re \in BOOLEAN, ss \in BOOLEAN}

\* the command lines main() is run on: lists with and without elements that
\* validation has to reject, every period around zero
Arguments ==
    {Namespace(p, t, r, np, ns, re, d, FALSE, FALSE) :
        p \in {-2, -1, 0, 1},
        t \in SeqsUpTo({"Struct256"}, MaxList),
        r \in SeqsUpTo({0, 7}, MaxList),
        np \in SeqsUpTo({0, 1}, MaxList),
        ns \in SeqsUpTo({-1, 0}, MaxList),
        re \in BOOLEAN, d \in BOOLEAN}

\* the inputs generate_experiment_permutations is called on: topics and rates
\* in any order, empty and with duplicates, publisher counts single, repeated
\* and descending, every combination of the three switches
GeneratorArguments ==
    {Namespace(DefaultPeriod, t, r, np, ns, re, d, se, FALSE) :
        t \in SeqsUpTo(VALID_TOPICS, MaxList),
        r \in SeqsUpTo({1, 11}, MaxList),
        np \in {<<1>>, <<1, 1>>, <<11, 1>>},
        ns \in {<<5>>},
        re \in BOOLEAN, d \in BOOLEAN, se \in BOOLEAN}

\* the list as argparse gave it, not sorted
unsorted(list) == list

\* sorted(list), by insertion
RECURSIVE sorted(_)
sorted(list) ==
    IF list = <<>> THEN <<>>
    ELSE LET rest == sorted(Tail(list))
             x == Head(list)
             n == Cardinality({i \in 1..Len(rest) : rest[i] < x})
         IN SubSeq(rest, 1, n) \o <<x>> \o SubSeq(rest, n + 1, Len(rest))

\* main(), line 297: period = float(parsed_arguments.period) + 1.0
period(args) == args.period + 1

\* main(), lines 307-309: e_list, generated from the sorted lists
e_list(args) ==
    generate_experiment_permutations(args.topics, sorted(args.rate), sorted(args.publishers),
                                     sorted(args.subscribers), args.reliability,
                                     args.durability, args.security)

----------------------------------------------------------------------------
(* Operating system processes and shell commands *)

\* a process started by Popen, known by what it runs and for which Experiment
Process(name, e) == [name |-> name, exp |-> e.id]

NoProcess == [name |-> "", exp |-> 0]

\* Popen(self.command, shell=True): the handle is the shell wrapper
Wrapper(e) == Process("sh", e)
\* the perf_test binary that "ros2 run" starts under the wrapper
Worker(e) == Process("perf_test", e)
\* Popen(['python', 'log_system_stats.py', '-l', file_name])
Sampler(e) == Process("python", e)

KillCmd(p) == [cmd |-> "kill -9", pid |-> p, pattern |-> ""]
PkillCmd(name) == [cmd |-> "pkill -9", pid |-> NoProcess, pattern |-> name]

\* the processes a shell command terminates when it runs: kill by pid, pkill
\* by process name (the name of the program, not its arguments)
Killed(cmd, procs) ==
    IF cmd.cmd = "kill -9" THEN {cmd.pid} \cap procs
    ELSE {p \in procs : p.name = cmd.pattern}

\* the names processes of this program run under
ProcessNames == {"sh", "perf_test", "python"}

\* subprocess.Popen() of the sampler, and os.makedirs() with subprocess.Popen()
\* of the Experiment: the child is started, or the call raises OSError (no
\* python on the PATH, the directory cannot be made, fork fails)
spawn_outcomes == {"started", "OSError"}

\* p.kill(): SIGKILL is sent to a child that is alive unless the controller
\* may not signal it, which raises PermissionError; a child that has ended is
\* left alone
kill_outcomes(p) == IF p \in alive THEN {"killed", "PermissionError"} ELSE {"gone"}

\* subprocess.Popen(cmd, shell=True) of a kill command: started, not waited
\* for.  A command that can never terminate anything (the pid is already dead
\* and pids are not reused, or no process runs under the name) leaves nothing
\* to wait for.
Popen(cmd, procs) ==
    IF cmd.cmd = "kill -9" /\ cmd.pid \notin procs THEN pending
    ELSE IF cmd.cmd = "pkill -9" /\ cmd.pattern \notin ProcessNames THEN pending
    ELSE pending (+) SetToBag({cmd})

----------------------------------------------------------------------------
(* Call stack *)

Frame(fn, pc) ==
    [fn |-> fn, pc |-> pc,
     it |-> <<>>,           \* kill(): handles the for loop has still to visit
     e |-> NoExperiment,    \* run(): the popped Experiment
     h |-> NoProcess,       \* run(): handle returned by Popen, not yet appended
     lst |-> "none",        \* run(): the list object append() was looked up on
     tmp |-> 0,             \* run(): number_tests_executed as read by +=
     q0 |-> experiment_list,        \* history: the runner's fields when the
     r0 |-> processes,              \*   frame was entered
     n0 |-> number_tests_executed,
     l0 |-> Len(launched)]

Top == stack[Len(stack)]
Running == status = "running" /\ stack # <<>>
At(fn, pc) == Running /\ Top.fn = fn /\ Top.pc = pc

SetTop(f) == [stack EXCEPT ![Len(stack)] = f]
Goto(pc) == SetTop([Top EXCEPT !.pc = pc])
\* the top frame moves to pc and calls fn
Call(pc, fn, entry) == Append(Goto(pc), Frame(fn, entry))

Handlers == {"timer_handler", "signal_handler"}
Frames(fns) == {i \in 1..Len(stack) : stack[i].fn \in fns}
Depth == Cardinality(Frames(Handlers))

\* a frame that has nothing left to do returns to its caller
RECURSIVE Unwind(_)
Unwind(st) ==
    IF st # <<>> /\ st[Len(st)].pc = "return" THEN Unwind(SubSeq(st, 1, Len(st) - 1))
    ELSE st

\* an exception nothing catches unwinds every frame and ends the process with
\* a traceback
uncaught(exception) ==
    /\ status' = "crashed"
    /\ error' = exception
    /\ stack' = <<>>

\* self.processes = [] makes a new list: append() calls already looked up on
\* the old list object no longer reach the registry
Rebound(st) ==
    [i \in 1..Len(st) |-> IF st[i].lst = "cur" THEN [st[i] EXCEPT !.lst = "stale"] ELSE st[i]]

----------------------------------------------------------------------------
(* ExperimentRunner *)

get_number_of_experiments == Len(experiment_list)

\* has_commands() that is true of the empty queue as well
has_commands_or_empty == Len(experiment_list) >= 0

has_commands == Len(experiment_list) > 0

\* list.pop(): the last element is removed instead of the first
pop_last(list) == SubSeq(list, 1, Len(list) - 1)

\* what list.pop(0) leaves in the list
pop_0(list) == Tail(list)

\* the registry kept as it is instead of being replaced by an empty list
not_cleared(list) == list

\* self.processes = []
cleared(list) == <<>>

\* run(), line 223: if self.has_commands(); the else branch only prints
run_has_commands ==
    /\ At("run", "has_commands")
    /\ stack' = Goto(IF has_commands THEN "pop" ELSE "return")
    /\ UNCHANGED <<runner, status, error, alive, forked, pending, launched, calls>>

\* run(), lines 225-228: e = self.experiment_list.pop(0), an IndexError on an
\* empty list, which nothing catches; logging.info(e)
run_pop ==
    /\ At("run", "pop")
    /\ IF experiment_list = <<>>
          THEN /\ uncaught("IndexError")
               /\ UNCHANGED experiment_list
          ELSE /\ experiment_list' = pop_0(experiment_list)
               /\ stack' = SetTop([Top EXCEPT !.e = Head(experiment_list),
                                              !.pc = "log_system_stats"])
               /\ UNCHANGED <<status, error>>
    /\ UNCHANGED <<processes, number_tests_executed, log_system_stats, generated,
                   parsed_arguments, itimer, alive, forked, pending, launched, calls>>

\* run(), lines 230-234: with log_system_stats the sampler is started; the
\* list append() will act on is looked up before Popen is called
run_log_system_stats ==
    /\ At("run", "log_system_stats")
    /\ IF log_system_stats
          THEN \E outcome \in spawn_outcomes :
                  IF outcome = "started"
                     THEN /\ alive' = alive \cup {Sampler(Top.e)}
                          /\ stack' = SetTop([Top EXCEPT !.h = Sampler(Top.e), !.lst = "cur",
                                                         !.pc = "append_stats"])
                          /\ UNCHANGED <<status, error>>
                     ELSE /\ uncaught(outcome)
                          /\ UNCHANGED alive
          ELSE /\ stack' = Goto("e_run")
               /\ UNCHANGED <<alive, status, error>>
    /\ UNCHANGED <<runner, forked, pending, launched, calls>>

\* list.insert(0, handle): the handle is put in front
insert_0(f) == IF f.lst = "cur" THEN <<f.h>> \o processes ELSE processes

\* list.append(handle) on the list object looked up earlier
append(f) == IF f.lst = "cur" THEN Append(processes, f.h) ELSE processes

\* run(), line 234: self.processes.append(<the sampler's handle>)
run_append_stats ==
    /\ At("run", "append_stats")
    /\ processes' = append(Top)
    /\ stack' = SetTop([Top EXCEPT !.h = NoProcess, !.lst = "none", !.pc = "e_run"])
    /\ UNCHANGED <<experiment_list, number_tests_executed, log_system_stats, generated, parsed_arguments, itimer,
                   status, error, alive, forked, pending, launched, calls>>

\* run(), line 237, and Experiment.run(), lines 166-172: the command is
\* started through a shell and the handle of the shell is returned
run_e_run ==
    /\ At("run", "e_run")
    /\ \E outcome \in spawn_outcomes :
          IF outcome = "started"
             THEN /\ alive' = alive \cup {Wrapper(Top.e)}
                  /\ launched' = Append(launched, Top.e.id)
                  /\ stack' = SetTop([Top EXCEPT !.h = Wrapper(Top.e), !.lst = "cur",
                                                 !.pc = "append"])
                  /\ UNCHANGED <<status, error>>
             ELSE /\ uncaught(outcome)
                  /\ UNCHANGED <<alive, launched>>
    /\ UNCHANGED <<runner, forked, pending, calls>>

\* run(), line 237: self.processes.append(<the Experiment's handle>)
run_append ==
    /\ At("run", "append")
    /\ processes' = append(Top)
    /\ stack' = SetTop([Top EXCEPT !.h = NoProcess, !.lst = "none", !.pc = "inc_load"])
    /\ UNCHANGED <<experiment_list, number_tests_executed, log_system_stats, generated, parsed_arguments, itimer,
                   status, error, alive, forked, pending, launched, calls>>

\* run(), line 239: self.number_tests_executed += 1 reads the attribute ...
run_inc_load ==
    /\ At("run", "inc_load")
    /\ stack' = SetTop([Top EXCEPT !.tmp = number_tests_executed, !.pc = "inc_store"])
    /\ UNCHANGED <<runner, status, error, alive, forked, pending, launched, calls>>

\* ... and stores the sum; then time.sleep(1), line 240, after which run() returns
run_inc_store ==
    /\ At("run", "inc_store")
    /\ number_tests_executed' = Top.tmp + 1
    /\ stack' = Goto("return")
    /\ UNCHANGED <<experiment_list, processes, log_system_stats, generated, parsed_arguments, itimer,
                   status, error, alive, forked, pending, launched, calls>>

\* kill(), line 247: for p in self.processes iterates over the list object
\* that is the registry at this moment
kill_for ==
    /\ At("kill", "for")
    /\ stack' = SetTop([Top EXCEPT !.it = processes, !.pc = "loop"])
    /\ UNCHANGED <<runner, status, error, alive, forked, pending, launched, calls>>

\* kill(), lines 248-251: p.kill() and Popen('kill -9 ' + str(p.pid)) for the
\* next handle; after the last one, self.processes = []
kill_loop ==
    /\ At("kill", "loop")
    /\ IF Top.it # <<>>
          THEN \E outcome \in kill_outcomes(Head(Top.it)) :
                  IF outcome = "PermissionError"
                     THEN /\ uncaught(outcome)
                          /\ UNCHANGED <<alive, pending, processes>>
                     ELSE /\ alive' = alive \ {Head(Top.it)}
                          /\ pending' = Popen(KillCmd(Head(Top.it)), alive')
                          /\ stack' = SetTop([Top EXCEPT !.it = Tail(Top.it)])
                          /\ UNCHANGED <<processes, status, error>>
          ELSE /\ processes' = cleared(processes)
               /\ stack' = Rebound(Goto("pkill"))
               /\ UNCHANGED <<alive, pending, status, error>>
    /\ UNCHANGED <<experiment_list, number_tests_executed, log_system_stats, generated,
                   parsed_arguments, itimer, forked, launched, calls>>

\* kill(), line 252: Popen('pkill -9 perf_test', shell=True)
kill_pkill ==
    /\ At("kill", "pkill")
    /\ pending' = Popen(PkillCmd("perf_test"), alive)
    /\ stack' = Goto("return")
    /\ UNCHANGED <<runner, status, error, alive, forked, launched, calls>>

\* a function that has reached its end returns, and so does a caller that
\* has nothing left to do after the call
return ==
    /\ Running
    /\ Top.pc = "return"
    /\ stack' = Unwind(stack)
    /\ UNCHANGED <<runner, status, error, alive, forked, pending, launched, calls>>

----------------------------------------------------------------------------
(* main, timer_handler and signal_handler *)

\* main(), lines 331-333: timer_handler() is called once by hand, then the
\* process waits in signal.pause()
main_timer_handler ==
    /\ At("main", "timer_handler")
    /\ stack' = Call("pause", "timer_handler", "pkill")
    /\ UNCHANGED <<runner, status, error, alive, forked, pending, launched, calls>>

\* timer_handler(), lines 351-352: Popen('pkill -9 log_system_stats.py'),
\* then tests_to_run.kill()
timer_handler_kill ==
    /\ At("timer_handler", "pkill")
    /\ pending' = Popen(PkillCmd("log_system_stats.py"), alive)
    /\ stack' = Call("has_commands", "kill", "for")
    /\ calls' = Append(calls, "kill")
    /\ UNCHANGED <<runner, status, error, alive, forked, launched>>

\* timer_handler(), lines 355-359: run the next test, or print --FINISHED--
\* and exit(0)
timer_handler_run ==
    /\ At("timer_handler", "has_commands")
    /\ IF has_commands
          THEN /\ stack' = Call("return", "run", "has_commands")
               /\ calls' = Append(calls, "run")
               /\ UNCHANGED <<status, error>>
          ELSE /\ status' = "exited"
               /\ stack' = <<>>
               /\ UNCHANGED <<calls, error>>
    /\ UNCHANGED <<runner, alive, forked, pending, launched>>

\* signal_handler(), lines 341-343: print the count, then tests_to_run.kill()
signal_handler_kill ==
    /\ At("signal_handler", "print")
    /\ stack' = Call("exit", "kill", "for")
    /\ calls' = Append(calls, "kill")
    /\ UNCHANGED <<runner, status, error, alive, forked, pending, launched>>

\* signal_handler(), line 344: exit(0) raises SystemExit through every frame
signal_handler_exit ==
    /\ At("signal_handler", "exit")
    /\ status' = "exited"
    /\ stack' = <<>>
    /\ UNCHANGED <<runner, error, alive, forked, pending, launched, calls>>

\* parser.error(message): the message is printed and the process exits with
\* status 2
parser_error(message) ==
    /\ status' = "usage"
    /\ error' = message
    /\ stack' = <<>>

\* main(), lines 277-281 and 284-288: for i in list: if i <= 0:
\* parser.error(...) else: break; the loop looks at the first element and leaves
first_le_0(list) == list # <<>> /\ Head(list) <= 0

\* main(), lines 291-295: the same loop with i < 0
first_lt_0(list) == list # <<>> /\ Head(list) < 0

\* main(), lines 275-295: validate inputs
main_validate ==
    /\ At("main", "validate")
    /\ LET rate == sorted(parsed_arguments.rate)
           publishers == sorted(parsed_arguments.publishers)
           subscribers == sorted(parsed_arguments.subscribers)
       IN IF first_le_0(rate)
             THEN parser_error("rate must be greater than 0")
          ELSE IF first_le_0(publishers)
             THEN parser_error("publishers must be greater than 0")
          ELSE IF first_lt_0(subscribers)
             THEN parser_error("subscribers must be greater than or equal to 0")
          ELSE /\ stack' = Goto("period")
               /\ UNCHANGED <<status, error>>
    /\ UNCHANGED <<runner, alive, forked, pending, launched, calls>>

\* main(), lines 297-300: the period that is tested is the one with 1.0 added
main_period ==
    /\ At("main", "period")
    /\ IF period(parsed_arguments) <= 0
          THEN parser_error("period must be greater than 0")
          ELSE /\ stack' = Goto("generate")
               /\ UNCHANGED <<status, error>>
    /\ UNCHANGED <<runner, alive, forked, pending, launched, calls>>

\* main(), lines 306-309: e_list = generate_experiment_permutations(...)
main_generate ==
    /\ At("main", "generate")
    /\ generated' = e_list(parsed_arguments)
    /\ stack' = Goto("ExperimentRunner")
    /\ UNCHANGED <<experiment_list, processes, number_tests_executed, log_system_stats,
                   parsed_arguments, itimer, status, error, alive, forked, pending,
                   launched, calls>>

\* main(), lines 311-325, and ExperimentRunner.__init__, lines 189-192
main_ExperimentRunner ==
    /\ At("main", "ExperimentRunner")
    /\ processes' = <<>>
    /\ number_tests_executed' = 0
    /\ experiment_list' = generated
    /\ log_system_stats' = parsed_arguments.system_stats
    /\ stack' = Goto("setitimer")
    /\ UNCHANGED <<generated, parsed_arguments, itimer, status, error, alive, forked,
                   pending, launched, calls>>

\* main(), lines 327-329: the handlers are installed and the timer is armed
main_setitimer ==
    /\ At("main", "setitimer")
    /\ itimer' = period(parsed_arguments)
    /\ stack' = Goto("timer_handler")
    /\ UNCHANGED <<experiment_list, processes, number_tests_executed, log_system_stats,
                   generated, parsed_arguments, status, error, alive, forked, pending,
                   launched, calls>>

\* the interpreter calls a signal's handler on top of the frame that is
\* executing, whatever that frame is
Signal(fn, pc, depth) ==
    /\ Running
    /\ Depth < depth
    /\ stack' = Append(stack, Frame(fn, pc))

\* main(), lines 328-329: the interval timer raises SIGALRM
SIGALRM(depth) ==
    /\ itimer > 0
    /\ Signal("timer_handler", "pkill", depth)
    /\ UNCHANGED <<runner, status, error, alive, forked, pending, launched, calls>>

\* main(), line 327: Ctrl-C raises SIGINT
SIGINT(depth) ==
    /\ Signal("signal_handler", "print", depth)
    /\ calls' = Append(calls, "SIGINT")
    /\ UNCHANGED <<runner, status, error, alive, forked, pending, launched>>

----------------------------------------------------------------------------
(* The operating system *)

\* the wrapper of a launched Experiment starts the perf_test binary
fork ==
    \E p \in alive :
        /\ p.name = "sh"
        /\ p.exp \notin forked
        /\ forked' = forked \cup {p.exp}
        /\ alive' = alive \cup {[name |-> "perf_test", exp |-> p.exp]}
        /\ UNCHANGED <<runner, stack, status, error, pending, launched, calls>>

\* a child ends by itself: the command is not found, the benchmark or the
\* sampler fails or finishes
exit ==
    \E p \in alive :
        /\ alive' = alive \ {p}
        /\ UNCHANGED <<runner, stack, status, error, forked, pending, launched, calls>>

\* a spawned kill or pkill command gets to run
exec ==
    \E cmd \in BagToSet(pending) :
        /\ alive' = alive \ Killed(cmd, alive)
        /\ pending' = pending (-) SetToBag({cmd})
        /\ UNCHANGED <<runner, stack, status, error, forked, launched, calls>>

----------------------------------------------------------------------------
(* A caller that uses an ExperimentRunner directly, one call after another *)

caller_run ==
    /\ At("caller", "idle")
    /\ Len(calls) < MaxCalls
    /\ stack' = Append(stack, Frame("run", "has_commands"))
    /\ calls' = Append(calls, "run")
    /\ UNCHANGED <<runner, status, error, alive, forked, pending, launched>>

caller_kill ==
    /\ At("caller", "idle")
    /\ Len(calls) < MaxCalls
    /\ stack' = Append(stack, Frame("kill", "for"))
    /\ calls' = Append(calls, "kill")
    /\ UNCHANGED <<runner, status, error, alive, forked, pending, launched>>

----------------------------------------------------------------------------
(* Specifications *)

\* ExperimentRunner.__init__, lines 189-192, on the list main() generated
InitRunner ==
    /\ parsed_arguments \in SweepArguments
    /\ generated = e_list(parsed_arguments)
    /\ experiment_list = generated
    /\ processes = <<>>
    /\ number_tests_executed = 0
    /\ log_system_stats = parsed_arguments.system_stats
    /\ status = "running"
    /\ error = ""
    /\ alive = {}
    /\ forked = {}
    /\ pending = EmptyBag
    /\ launched = <<>>
    /\ calls = <<>>

\* main() has built tests_to_run, installed both handlers and armed the timer
Init ==
    /\ InitRunner
    /\ itimer = period(parsed_arguments)
    /\ stack = <<Frame("main", "timer_handler")>>

Method ==
    \/ run_has_commands \/ run_pop \/ run_log_system_stats \/ run_append_stats
    \/ run_e_run \/ run_append \/ run_inc_load \/ run_inc_store
    \/ kill_for \/ kill_loop \/ kill_pkill
    \/ return

Handler ==
    \/ main_timer_handler
    \/ timer_handler_kill \/ timer_handler_run
    \/ signal_handler_kill \/ signal_handler_exit

\* the controller with at most depth handler frames on the stack
Controller(depth) ==
    Method \/ Handler \/ SIGALRM(depth) \/ SIGINT(depth) \/ fork \/ exec \/ exit

Next == Controller(MaxDepth)

Spec == Init /\ [][Next]_vars

\* The controller when the host delivers a signal only while no handler is
\* executing.
NextSerial == Controller(1)

SerialSpec == Init /\ [][NextSerial]_vars

\* The controller on sweeps of at most one Experiment, with one more handler
\* frame allowed on the stack.
InitSingle == Init /\ Len(generated) <= 1

NextDeep == Controller(MaxDepth + 1)

DeepSpec == InitSingle /\ [][NextDeep]_vars

\* A caller of ExperimentRunner: no signal handlers are installed.
InitCaller ==
    /\ InitRunner
    /\ itimer = 0
    /\ stack = <<Frame("caller", "idle")>>

NextCaller == Method \/ caller_run \/ caller_kill \/ fork \/ exec \/ exit

RunnerSpec == InitCaller /\ [][NextCaller]_vars

\* the process before main() has generated or built anything
InitProcess ==
    /\ generated = <<>>
    /\ experiment_list = <<>>
    /\ processes = <<>>
    /\ number_tests_executed = 0
    /\ log_system_stats = FALSE
    /\ itimer = 0
    /\ status = "running"
    /\ error = ""
    /\ alive = {}
    /\ forked = {}
    /\ pending = EmptyBag
    /\ launched = <<>>
    /\ calls = <<>>

NextMain ==
    \/ main_validate \/ main_period \/ main_generate
    \/ main_ExperimentRunner \/ main_setitimer

\* main() from the parsed command line to the armed timer.
InitMain ==
    /\ parsed_arguments \in Arguments
    /\ InitProcess
    /\ stack = <<Frame("main", "validate")>>

MainSpec == InitMain /\ [][NextMain]_vars

\* generate_experiment_permutations called on its own.
caller_generate ==
    /\ At("caller", "generate")
    /\ generated' = generate_experiment_permutations(
                        parsed_arguments.topics, parsed_arguments.rate,
                        parsed_arguments.publishers, parsed_arguments.subscribers,
                        parsed_arguments.reliability, parsed_arguments.durability,
                        parsed_arguments.security)
    /\ stack' = Goto("idle")
    /\ UNCHANGED <<experiment_list, processes, number_tests_executed, log_system_stats,
                   parsed_arguments, itimer, status, error, alive, forked, pending,
                   launched, calls>>

InitGenerator ==
    /\ parsed_arguments \in GeneratorArguments
    /\ InitProcess
    /\ stack = <<Frame("caller", "generate")>>

GeneratorSpec == InitGenerator /\ [][caller_generate]_vars

----------------------------------------------------------------------------
(* Properties *)

Range(q) == {q[i] : i \in 1..Len(q)}

\* the controller state DONE: the process has left through exit(0)
DONE == status = "exited"

\* a user-cancel has been delivered
cancelled == "SIGINT" \in Range(calls)

\* fn is about to return to its caller
Returning(fn) == Running /\ Top.fn = fn /\ Top.pc = "return"

\* the Experiments some process of the set belongs to
Experiments(procs) == {p.exp : p \in procs}

\* C1: the Experiments launched so far are the first ones of the generated
\* sequence, in its order, and once the controller has stopped without a
\* user-cancel every generated Experiment has been launched.
C1_LaunchedInGeneratedOrder ==
    /\ Len(launched) <= Len(generated)
    /\ \A i \in 1..Len(launched) : i <= Len(generated) /\ launched[i] = generated[i].id
    /\ (status # "running" /\ ~cancelled) => Len(launched) = Len(generated)

\* C2: at every instant the benchmark processes that are alive (shell
\* wrappers and perf_test workers) belong to at most one Experiment.
C2_OneBenchmarkAlive ==
    Cardinality(Experiments({p \in alive : p.name \in {"sh", "perf_test"}})) <= 1

\* kill, run, kill, run, ..., kill with n run() calls
KillRunKill(n) == [i \in 1..(2 * n + 1) |-> IF i % 2 = 1 THEN "kill" ELSE "run"]

\* C3: with N >= 1 generated Experiments and no user-cancel the controller
\* stops in DONE, and by then it has made exactly N run() calls, each launching
\* an Experiment and each directly after a kill(), and one more kill() at the
\* end.
C3_KillBeforeEveryRun ==
    (status # "running" /\ ~cancelled /\ generated # <<>>) =>
        /\ DONE
        /\ calls = KillRunKill(Len(generated))
        /\ Len(launched) = Len(generated)

\* what the controller can still do by itself or on a timer tick
Advance == Method \/ Handler \/ SIGALRM(MaxDepth)

\* C4: without a user-cancel the controller never comes to a stop anywhere but
\* in DONE: as long as it is not DONE it can take a step or handle a tick.
C4_StopsOnlyInDone ==
    (~cancelled /\ ~ENABLED Advance) => DONE

\* C5: when kill() returns the registry is empty, whatever it held when kill()
\* was called, and the run queue and the executed counter are as they were.
C5_KillEmptiesRegistry ==
    Returning("kill") =>
        /\ processes = <<>>
        /\ experiment_list = Top.q0
        /\ number_tests_executed = Top.n0

\* a second kill() in a row returns; the first one found the sampler's and
\* the Experiment's handle in the registry
C5_SecondKillReturns ==
    /\ Returning("kill")
    /\ Top.r0 = <<>>
    /\ calls = <<"run", "kill", "kill">>
    /\ log_system_stats
    /\ launched # <<>>

\* C6: when a run() that was called on a non-empty queue returns, the queue is
\* the old queue without its head and the executed counter is one higher.
C6_RunPopsHead ==
    (Returning("run") /\ Top.q0 # <<>>) =>
        /\ experiment_list = Tail(Top.q0)
        /\ number_tests_executed = Top.n0 + 1

\* run() returns after it was called on a queue of two Experiments
C6_RunOnTwoReturns ==
    /\ Returning("run")
    /\ Len(Top.q0) = 2

\* C7: a run() called on an empty queue only tests the queue and returns: it
\* never gets to pop (which would raise), and when it returns the queue, the
\* registry and the counter are as they were and nothing was launched.
C7_RunOnEmptyQueue ==
    (Running /\ Top.fn = "run" /\ Top.q0 = <<>>) =>
        /\ Top.pc \in {"has_commands", "return"}
        /\ experiment_list = Top.q0
        /\ processes = Top.r0
        /\ number_tests_executed = Top.n0
        /\ Len(launched) = Top.l0

\* run() returns after it was called on an empty queue with a handle in the
\* registry and a non-zero counter
C7_RunOnEmptyReturns ==
    /\ Returning("run")
    /\ Top.q0 = <<>>
    /\ Top.r0 # <<>>
    /\ Top.n0 > 0

\* C8: the registry holds handles of at most one Experiment: at most one
\* benchmark handle and, only with sampling enabled, at most one sampler handle.
C8_RegistryHoldsOneSlot ==
    /\ Cardinality(Experiments(Range(processes))) <= 1
    /\ Cardinality({i \in 1..Len(processes) : processes[i].name = "sh"}) <= 1
    /\ Cardinality({i \in 1..Len(processes) : processes[i].name = "python"})
            <= (IF log_system_stats THEN 1 ELSE 0)

\* C9: once a user-cancel has been delivered and the controller has stopped,
\* it has stopped in DONE and kill() was called after the cancel arrived.
C9_CancelEndsInDone ==
    (cancelled /\ status # "running") =>
        /\ DONE
        /\ \E i, j \in 1..Len(calls) : i < j /\ calls[i] = "SIGINT" /\ calls[j] = "kill"

\* C10: at most one trigger handler is executing or suspended at any time, so
\* no handler starts while another one has not run to completion.
C10_HandlersRunToCompletion == Depth <= 1

\* C11: kill() never raises: a termination that fails does not end kill() with
\* an exception, and when kill() returns it has visited every handle it found
\* in the registry and the registry is empty.
C11_KillNeverRaises ==
    /\ error # "PermissionError"
    /\ Returning("kill") => (Top.it = <<>> /\ processes = <<>>)

\* C12: a spawn that fails inside run() never ends the controller: the timer
\* loop goes on to the next tick.
C12_SpawnFailureAbsorbed ==
    error = "OSError" => status = "running"

\* what main() has got to
main_at(pcs) == Running /\ stack[1].fn = "main" /\ stack[1].pc \in pcs

\* 1 + f for a switch f
choices(f) == IF f THEN 2 ELSE 1

\* |T| * |R| * |P| * |S| * (1 + fr) * (1 + fd) * (1 + fs)
closed_form(args) ==
    Len(args.topics) * Len(args.rate) * Len(args.publishers) * Len(args.subscribers)
        * choices(args.reliability) * choices(args.durability) * choices(args.security)

\* C13: generate_experiment_permutations returns exactly
\* |T| * |R| * |P| * |S| * (1 + fr) * (1 + fd) * (1 + fs) Experiments, duplicates
\* in the lists counted, and get_number_of_experiments() of the runner built
\* from them is that number before any run starts.
C13_ClosedFormCount ==
    /\ main_at({"ExperimentRunner", "setitimer", "timer_handler"}) =>
            Len(generated) = closed_form(parsed_arguments)
    /\ main_at({"setitimer", "timer_handler"}) =>
            get_number_of_experiments = closed_form(parsed_arguments)

\* the runner is built on lists with a duplicate and on both values of a switch
C13_CountOfEight ==
    /\ main_at({"setitimer"})
    /\ parsed_arguments.rate = <<7, 7>>
    /\ Len(parsed_arguments.publishers) = 2
    /\ parsed_arguments.reliability /\ ~parsed_arguments.durability
    /\ get_number_of_experiments = 8
    /\ calls = <<>>

\* generate_experiment_permutations has returned to its caller
generate_returned == At("caller", "idle")

\* the seven collections in the order of the signature, a switch standing for
\* flag absent, then flag present
collections(args) ==
    <<args.topics, args.rate, args.publishers, args.subscribers,
      IF args.reliability THEN <<"", RELIABLE_FLAG>> ELSE <<"">>,
      IF args.durability THEN <<"", DURABILITY_FLAG>> ELSE <<"">>,
      IF args.security THEN <<"", SECURITY_FLAG>> ELSE <<"">> >>

\* the parameters of an Experiment in the same order
parameters(e) ==
    <<e.topic, e.rate, e.num_publishers, e.num_subscribers,
      e.reliability, e.durability, e.security>>

\* how many Experiments lie between two that differ in collection i by one place
RECURSIVE stride(_, _)
stride(pools, i) == IF i >= Len(pools) THEN 1 ELSE Len(pools[i + 1]) * stride(pools, i + 1)

\* C14: the k-th Experiment takes from every collection the element the
\* product order gives it, topics outermost and security innermost, absent
\* before present; one Experiment is generated for every position of every
\* list, so repeated values give repeated Experiments.
C14_ProductOrder ==
    generate_returned =>
        LET pools == collections(parsed_arguments)
        IN /\ Len(generated) = stride(pools, 0)
           /\ \A k \in 1..Len(generated) : \A i \in 1..7 :
                  parameters(generated[k])[i]
                      = pools[i][(((k - 1) \div stride(pools, i)) % Len(pools[i])) + 1]

\* two topics, rates not in ascending order, a repeated publisher count and
\* the security switch: sixteen Experiments, the first and the third alike
C14_RepeatedAndUnordered ==
    /\ generate_returned
    /\ parsed_arguments.topics = <<"Struct256", "Array1k">>
    /\ parsed_arguments.rate = <<11, 1>>
    /\ parsed_arguments.publishers = <<1, 1>>
    /\ parsed_arguments.security /\ ~parsed_arguments.reliability /\ ~parsed_arguments.durability
    /\ Len(generated) = 16
    /\ parameters(generated[1]) = parameters(generated[3])
    /\ generated[9].topic = "Array1k"

\* some element of some list is out of range
invalid_lists(args) ==
    \/ \E i \in 1..Len(args.rate) : args.rate[i] <= 0
    \/ \E i \in 1..Len(args.publishers) : args.publishers[i] <= 0
    \/ \E i \in 1..Len(args.subscribers) : args.subscribers[i] < 0

list_messages ==
    {"rate must be greater than 0", "publishers must be greater than 0",
     "subscribers must be greater than or equal to 0"}

\* C15: a command line with a rate or a publisher count <= 0 or a subscriber
\* count < 0 at any place of its list never gets past validation: the process
\* ends in parser.error with nothing generated, and the timer not armed; a
\* command line whose lists hold valid elements only is never rejected for
\* its lists.
C15_ValidationRejects ==
    /\ invalid_lists(parsed_arguments) =>
            /\ main_at({"validate"}) \/ (status = "usage" /\ error \in list_messages)
            /\ generated = <<>> /\ launched = <<>> /\ itimer = 0
    /\ ~invalid_lists(parsed_arguments) =>
            /\ error \notin list_messages
            /\ ~main_at({"validate"}) => (main_at({"period", "generate", "ExperimentRunner",
                                                  "setitimer", "timer_handler"})
                                            \/ error = "period must be greater than 0")

\* rejected for a subscriber count that is neither first nor alone, after a
\* rate list and a publishers list that passed
C15_RejectedForLaterElement ==
    /\ status = "usage"
    /\ parsed_arguments.rate = <<7, 7>>
    /\ parsed_arguments.publishers = <<1>>
    /\ parsed_arguments.subscribers = <<0, -1>>
    /\ error = "subscribers must be greater than or equal to 0"

\* C16: a command line whose --period is <= 0 never gets past the period
\* test: nothing is generated and the timer is never armed.
C16_NonPositivePeriodRejected ==
    parsed_arguments.period <= 0 =>
        /\ main_at({"validate", "period"}) \/ status = "usage"
        /\ generated = <<>> /\ itimer = 0

\* the elements of a set of numbers in ascending order
RECURSIVE ascending(_)
ascending(S) ==
    IF S = {} THEN <<>>
    ELSE LET least == CHOOSE x \in S : \A y \in S : x <= y
         IN <<least>> \o ascending(S \ {least})

\* the words of a string: its longest pieces without the separator
words(s, sep) ==
    LET first == ascending({i \in 1..Len(s) : s[i] # sep /\ (i = 1 \/ s[i - 1] = sep)})
        last == ascending({i \in 1..Len(s) : s[i] # sep /\ (i = Len(s) \/ s[i + 1] = sep)})
    IN [k \in 1..Len(first) |-> SubSeq(s, first[k], last[k])]

\* what an Experiment writes and where, with the parameters it was made from
outputs(e) ==
    [path |-> path(e), file_name |-> file_name(e), command |-> command(e),
     topic |-> e.topic, rate |-> e.rate, num_publishers |-> e.num_publishers,
     num_subscribers |-> e.num_subscribers,
     flags |-> SelectSeq(<<e.reliability, e.durability, e.security>>, LAMBDA f : f # "")]

all_outputs == {outputs(generated[k]) : k \in 1..Len(generated)}

same_numbers(a, b) ==
    /\ a.rate = b.rate
    /\ a.num_publishers = b.num_publishers
    /\ a.num_subscribers = b.num_subscribers

\* C17: two generated Experiments with the same directory and different
\* (rate, publishers, subscribers) have different file names, and two that
\* differ in nothing but their flags have different directories.
C17_FileNamesInjective ==
    generate_returned =>
        \A a, b \in all_outputs :
            /\ (a.path = b.path /\ ~same_numbers(a, b)) => a.file_name # b.file_name
            /\ (a.topic = b.topic /\ same_numbers(a, b) /\ a.flags # b.flags)
                    => a.path # b.path

\* rates 1 and 11 with publisher counts 11 and 1, which put the same digits
\* between the same topic and subscriber count, under all eight flag sets
C17_SameDigits ==
    /\ generate_returned
    /\ parsed_arguments.rate = <<1, 11>>
    /\ parsed_arguments.publishers = <<11, 1>>
    /\ Len(parsed_arguments.topics) = 2
    /\ Len(generated) = 64
    /\ Cardinality({o.path : o \in all_outputs}) = 16

\* '_<flag>' for every flag, one after the other
suffixes(flags) == join(<<>>, [i \in 1..Len(flags) |-> <<"_">> \o chars(flags[i])])

\* C18: for every generated Experiment the directory is <topic> followed by
\* '_<flag>' for exactly the enabled flags in the order reliability,
\* durability, security; the file is topic<topic>_rate<rate>_p<p>_s<s>, the
\* same suffixes and '.log', in that directory; and the words of the command
\* are the prefix, --topic <topic> --rate <rate> -p<p> -s<s>, then '--<flag>'
\* for the same flags, then -l and the file name.
C18_FlagsConsistent ==
    generate_returned =>
        \A o \in all_outputs :
            LET dirs == words(o.path, "/")
                file == words(o.file_name, "/")
                flag(f) == <<"-", "-">> \o chars(f)
            IN /\ Len(dirs) = 2
               /\ dirs[2] = chars(o.topic) \o suffixes(o.flags)
               /\ file = dirs \o << <<"t", "o", "p", "i", "c">> \o chars(o.topic)
                                     \o <<"_", "r", "a", "t", "e">> \o str(o.rate)
                                     \o <<"_", "p">> \o str(o.num_publishers)
                                     \o <<"_", "s">> \o str(o.num_subscribers)
                                     \o suffixes(o.flags) \o <<".", "l", "o", "g">> >>
               /\ words(o.command, " ")
                    = words(COMMAND_PREFIX, " ")
                        \o << <<"-", "-", "t", "o", "p", "i", "c">>, chars(o.topic),
                              <<"-", "-", "r", "a", "t", "e">>, str(o.rate),
                              <<"-", "p">> \o str(o.num_publishers),
                              <<"-", "s">> \o str(o.num_subscribers) >>
                        \o [i \in 1..Len(o.flags) |-> flag(o.flags[i])]
                        \o << <<"-", "l">>, o.file_name >>

\* Experiments with no flag, with the security flag alone and with all three
C18_AllFlagSets ==
    /\ generate_returned
    /\ parsed_arguments.reliability /\ parsed_arguments.durability /\ parsed_arguments.security
    /\ Len(generated) = 8
    /\ \E o \in all_outputs : o.flags = <<>>
    /\ \E o \in all_outputs : o.flags = <<SECURITY_FLAG>>
    /\ \E o \in all_outputs : o.flags = <<RELIABLE_FLAG, DURABILITY_FLAG, SECURITY_FLAG>>

\* no handler and no method of the runner is executing or suspended
quiescent == Running /\ Len(stack) = 1

\* C19: whenever no handler is executing the executed counter and the length
\* of the run queue add up to the number of Experiments generated, and since
\* any call that has not yet returned was made the counter has not gone down
\* and the queue has not grown.
C19_CounterPlusQueue ==
    /\ quiescent => number_tests_executed + Len(experiment_list) = Len(generated)
    /\ \A i \in 1..Len(stack) :
            /\ number_tests_executed >= stack[i].n0
            /\ Len(experiment_list) <= Len(stack[i].q0)

\* C20: a run() called on a non-empty queue and an empty registry returns with
\* the registry holding the Experiment's handle alone when sampling is
\* disabled, and the sampler's handle followed by the Experiment's when it is
\* enabled; by the time the Experiment is launched the sampler has been
\* launched and registered; with sampling disabled no sampler exists.
C20_RunRegisters ==
    /\ (Running /\ Top.fn = "run" /\ Top.q0 # <<>> /\ Top.r0 = <<>>) =>
            LET e == Head(Top.q0)
            IN /\ Top.pc = "return" =>
                    processes = IF log_system_stats THEN <<Sampler(e), Wrapper(e)>>
                                ELSE <<Wrapper(e)>>
               /\ Top.pc = "append_stats" =>
                    (processes = <<>> /\ Len(launched) = Top.l0 /\ Top.h = Sampler(e))
               /\ Top.pc = "e_run" =>
                    /\ processes = IF log_system_stats THEN <<Sampler(e)>> ELSE <<>>
                    /\ Len(launched) = Top.l0
    /\ ~log_system_stats =>
            \A p \in alive \cup Range(processes) : p.name # "python"

\* run() returns with sampling enabled, called on two Experiments and an
\* empty registry
C20_RunWithSamplerReturns ==
    /\ Returning("run")
    /\ Len(Top.q0) = 2 /\ Top.r0 = <<>>
    /\ log_system_stats
    /\ Len(processes) = 2

\* the kill() frames that signal_handler has called and that have not returned.
\* signal_handler prints number_tests_executed and calls kill() in one step
\* (lines 341-343), so such a frame was entered with the counter at the value
\* that was printed (n0) and with the Experiments launched up to then (l0)
cancel_reports ==
    {i \in 2..Len(stack) : /\ stack[i].fn = "kill"
                           /\ stack[i - 1].fn = "signal_handler"
                           /\ stack[i - 1].pc = "exit"}

\* C21: the count signal_handler prints is the number of Experiments that had
\* been launched when it printed it, wherever the cancel arrived.
C21_ReportedCountIsLaunched ==
    \A i \in cancel_reports : stack[i].n0 = stack[i].l0

\* the processes a command that is still to run will terminate
targeted == UNION {Killed(cmd, alive) : cmd \in BagToSet(pending)}

\* C22: once the controller is in DONE no launched process, benchmark or
\* sampler, is left alive that no kill() reached: whatever is still alive
\* has a forced termination under way.
C22_NothingLeftUntargeted ==
    DONE => alive \subseteq targeted

\* the number of kill() calls made so far
kills_called == Cardinality({i \in DOMAIN calls : calls[i] = "kill"})

\* the number of Experiments launched up to and including the one process p
\* belongs to; a sampler whose Experiment is still to be launched comes after
\* all of them
rank(p) ==
    IF p.exp \in Range(launched)
    THEN CHOOSE k \in DOMAIN launched : launched[k] = p.exp
    ELSE Len(launched) + 1

\* C23: a forced termination that is still to take effect was issued by one of
\* the kill() calls made so far, and it only reaches processes launched before
\* that kill(). When handlers run one at a time the k-th Experiment is launched
\* by the run() that follows the k-th kill(), so a process that a termination
\* can reach belongs to an Experiment that more than rank(p) - 1 kill() calls
\* have followed: no termination reaches the Experiment launched after the
\* last kill().
C23_KillSparesNextExperiment ==
    \A p \in targeted : rank(p) < kills_called

\* Experiment.run(), lines 169-170: the directories made so far, self.path of
\* every Experiment whose run() got to start its command
directories == {path(generated[id]) : id \in Range(launched)}

\* the directory process p writes its output file in: the .log file of the
\* benchmark and the .csv file of the sampler are both under self.path
directory(p) == path(generated[p.exp])

\* C24: a process that was launched to write under an Experiment's directory,
\* benchmark or sampler, finds that directory made: it was created before the
\* process was started.
C24_DirectoryBeforeLaunch ==
    \A p \in alive : directory(p) \in directories

====
